---- MODULE Spec2Model ----
(***************************************************************************)
(* Model of raw-tracks-tools' track normalisation (render-track.js):       *)
(* normalizeVideoTrackToM4V, normalizeAudioTrack and getAudioEncoderArgs.  *)
(*                                                                         *)
(* Times are seconds in the source.  Here a time is an integer number of   *)
(* ticks, TicksPerMs ticks to the millisecond, so that durations that are  *)
(* not whole milliseconds exist and Math.round / Math.floor do real work.  *)
(* Float rounding error of the IEEE arithmetic itself is not modelled.     *)
(*                                                                         *)
(* Every call of an exported function is a "run".  A run is a sequence of  *)
(* synchronous stretches of code separated by `await`s of an external      *)
(* ffmpeg command; one action models one such stretch.                     *)
(***************************************************************************)
EXTENDS Integers, Sequences, FiniteSets, TLC

\* ------------------------------------------------------------------ bounds
MaxTime    == 3     \* largest time stamp of a video analysis, in ticks
MaxGaps    == 2     \* longest gap list
MaxStart   == 1     \* largest startTime of a video analysis, in ticks
TicksPerMs == 2     \* resolution of the time axis
MaxInputs  == 3     \* most -i options of one command line
MaxRooms   == 4     \* room folders in the cache directory
MaxBatchSize == 2   \* largest PERFORMANCE_CONFIG.batchSize
MaxGroups  == 2     \* most timestamp groups of one room

Runs == {1, 2}

\* ------------------------------------------------------- values and inputs
Null     == -1                               \* undefined / null number
NotArray == <<[start |-> -1, end |-> -1]>>   \* analysis.gaps that is no array
Undefined == <<>>                            \* g_audioEncoderArgs not yet set

g_tempFilePrefix == "rawtracks_"
tmpDir == "/tmp"

\* gaps with start <= end, in lists of any order, overlap and range; a gap
\* with end < start only on its own
AllGapVals == [start : 0..MaxTime, end : 0..MaxTime]
GapVals    == {g \in AllGapVals : g.start <= g.end}
GapLists   == UNION {[1..n -> GapVals] : n \in 0..MaxGaps}
                 \cup {<<g>> : g \in AllGapVals \ GapVals}
SmallGapLists == {<<>>, <<[start |-> 1, end |-> 2]>>}

NoSize == [w |-> 0, h |-> 0]

\* analyses whose fields all pass normalizeVideoTrackToM4V's checks
GoodVideoAnalyses ==
    [isVideo : {TRUE}, startTime : 0..MaxStart, endTime : 1..MaxTime,
     gaps : GapLists, videoSize : {[w |-> 1280, h |-> 720]}]

\* analyses with any combination of present and missing fields
AnyVideoAnalyses ==
    [isVideo : BOOLEAN, startTime : {Null} \cup 0..MaxStart,
     endTime : {Null} \cup 0..MaxTime,
     gaps : SmallGapLists \cup {NotArray},
     videoSize : [w : {0, 1280}, h : {0, 720}]]

\* 1.234 s and the half millisecond after it, 0, and half a millisecond
AudioStartTimes ==
    {0, 1, TicksPerMs, 1234 * TicksPerMs, 1234 * TicksPerMs + 1}

AudioAnalyses ==
    [isVideo : BOOLEAN, startTime : {Null} \cup AudioStartTimes,
     endTime : {Null}, gaps : {NotArray}, videoSize : {NoSize}]

Codecs == {"aac", "wav", "mp3"}

\* a file path: directory, and a file name made of prefix, stem, role,
\* index and extension
FileName(prefix, stem, role, n, ext) ==
    [prefix |-> prefix, stem |-> stem, role |-> role, n |-> n, ext |-> ext]
Resolve(dir, name) == [dir |-> dir, name |-> name]
Basename(path) == path.name.stem

InputPaths ==
    {Resolve(d, FileName("", s, "", -1, ".webm")) :
        d \in {"roomA", "roomB"}, s \in {"cam", "mic"}}

NoPath == Resolve("", FileName("", "", "", -1, ""))

NoCall == [fn |-> "none", inputPath |-> NoPath,
           analysis |-> [isVideo |-> FALSE, startTime |-> Null,
                         endTime |-> Null, gaps |-> NotArray,
                         videoSize |-> NoSize],
           codec |-> "aac"]

Call(fn, p, a, c) == [fn |-> fn, inputPath |-> p, analysis |-> a, codec |-> c]

VideoCalls ==
    {Call("video", p, a, "aac") : p \in InputPaths, a \in AnyVideoAnalyses}
    \cup
    {Call("video", Resolve("roomA", FileName("", "cam", "", -1, ".webm")),
          a, "aac") : a \in GoodVideoAnalyses}
AudioCalls ==
    {Call("audio", p, a, c) :
        p \in InputPaths, a \in AudioAnalyses, c \in Codecs}

\* the small set of calls used when two runs are interleaved
ConcGapLists == {<<>>, <<[start |-> 0, end |-> 1]>>}
ConcCalls ==
    {Call("video", p, a, "aac") :
        p \in InputPaths,
        a \in [isVideo : {TRUE}, startTime : {0}, endTime : {2},
               gaps : ConcGapLists, videoSize : {[w |-> 1280, h |-> 720]}]}
    \cup
    {Call("audio", p, a, c) :
        p \in InputPaths,
        a \in [isVideo : {FALSE}, startTime : {1}, endTime : {Null},
               gaps : {NotArray}, videoSize : {NoSize}],
        c \in {"aac", "wav"}}

VARIABLES
    args,                \* args[r]: the arguments of run r's call
    run,                 \* run[r]: the locals of run r and its position
    fs,                  \* the paths that exist on disk
    g_audioEncoderArgs,  \* the module-level encoder cache
    probes,              \* number of `ffmpeg -encoders` probes executed
    cli,                 \* the normalize-track script: its globals, position
    batch                \* the batch script: its locals, position, rooms

vars == <<args, run, fs, g_audioEncoderArgs, probes, cli, batch>>

\* ---------------------------------------------------------- preconditions
Falsy(n) == n = Null \/ n = 0          \* !x for a number or undefined
IsArray(g) == g # NotArray             \* Array.isArray

\* the four guards at the head of normalizeVideoTrackToM4V, in order;
\* "none" when every one of them passes
ValidateVideoNoSizeCheck(a) ==
    IF ~a.isVideo THEN "normalizeVideoTrack expects video input"
    ELSE IF Falsy(a.endTime) \/ a.startTime = Null
        THEN "normalizeVideoTrack expects non-zero endTime and startTime key"
    ELSE IF ~IsArray(a.gaps)
        THEN "normalizeVideoTrack expects analysis.gaps to be set"
    ELSE "none"

ValidateVideo(a) ==
    IF ~a.isVideo THEN "normalizeVideoTrack expects video input"
    ELSE IF Falsy(a.endTime) \/ a.startTime = Null
        THEN "normalizeVideoTrack expects non-zero endTime and startTime key"
    ELSE IF ~IsArray(a.gaps)
        THEN "normalizeVideoTrack expects analysis.gaps to be set"
    ELSE IF Falsy(a.videoSize.w) \/ Falsy(a.videoSize.h)
        THEN "normalizeVideoTrack expects analysis.videoSize to be set"
    ELSE "none"

\* the guards of normalizeAudioTrack, in order
ValidateAudio(a, codec) ==
    IF a.isVideo THEN "normalizeAudioTrack expects audio input"
    ELSE IF a.startTime = Null THEN "normalizeAudioTrack expects startTime key"
    ELSE IF codec = "wav" THEN "none"
    ELSE IF codec # "aac" THEN "Unsupported audio codec"
    ELSE "none"

ValidationErrors ==
    {"normalizeVideoTrack expects video input",
     "normalizeVideoTrack expects non-zero endTime and startTime key",
     "normalizeVideoTrack expects analysis.gaps to be set",
     "normalizeVideoTrack expects analysis.videoSize to be set",
     "normalizeAudioTrack expects audio input",
     "normalizeAudioTrack expects startTime key",
     "Unsupported audio codec"}

\* ------------------------------------------------------- segment planning
Seg(start, end, type) == [start |-> start, end |-> end, type |-> type]

\* the `for (const gap of gaps)` loop: cursor t and the segments so far
RECURSIVE PlanLoopEager(_, _, _)
PlanLoopEager(gaps, t, segs) ==
    IF gaps = <<>> THEN [t |-> t, segs |-> segs]
    ELSE LET gap == Head(gaps)
             s1  == IF gap.start >= t
                       THEN Append(segs, Seg(t, gap.start, "src"))
                       ELSE segs
         IN  PlanLoopEager(Tail(gaps), gap.end,
                           Append(s1, Seg(gap.start, gap.end, "gap")))

RECURSIVE PlanLoopSkipEmpty(_, _, _)
PlanLoopSkipEmpty(gaps, t, segs) ==
    IF gaps = <<>> THEN [t |-> t, segs |-> segs]
    ELSE LET gap == Head(gaps)
             s1  == IF gap.start > t
                       THEN Append(segs, Seg(t, gap.start, "src"))
                       ELSE segs
         IN  IF gap.end <= gap.start
                THEN PlanLoopSkipEmpty(Tail(gaps), t, segs)
                ELSE PlanLoopSkipEmpty(Tail(gaps), gap.end,
                         Append(s1, Seg(gap.start, gap.end, "gap")))

RECURSIVE PlanLoop(_, _, _)
PlanLoop(gaps, t, segs) ==
    IF gaps = <<>> THEN [t |-> t, segs |-> segs]
    ELSE LET gap == Head(gaps)
             s1  == IF gap.start > t
                       THEN Append(segs, Seg(t, gap.start, "src"))
                       ELSE segs
         IN  PlanLoop(Tail(gaps), gap.end,
                      Append(s1, Seg(gap.start, gap.end, "gap")))

PlanSegmentsNoTail(gaps, endTime) == PlanLoop(gaps, 0, <<>>).segs

PlanSegmentsTailAlways(gaps, endTime) ==
    LET p == PlanLoop(gaps, 0, <<>>)
    IN  Append(p.segs, Seg(p.t, endTime, "src"))

PlanSegments(gaps, endTime) ==
    LET p == PlanLoop(gaps, 0, <<>>)
    IN  IF p.t < endTime
           THEN Append(p.segs, Seg(p.t, endTime, "src"))
           ELSE p.segs

\* ---------------------------------------------------------------- rounding
\* Math.round(x * 1000) for x = d ticks: nearest millisecond, halves up
RoundMsCoarse(d) == 10 * ((2 * d + 10 * TicksPerMs) \div (20 * TicksPerMs))
RoundMs(d) == (2 * d + TicksPerMs) \div (2 * TicksPerMs)

\* Math.floor(x * 1000) for x = d ticks
FloorMs(d) == d \div TicksPerMs

\* ---------------------------------------------------------------- commands
Label(stage, i, ctx, sfx) ==
    [stage |-> stage, i |-> i, ctx |-> ctx, sfx |-> sfx]

\* the label as the template literal renders it: `stage_ctx`, `stage_i_ctx`
\* for the segment renders, `audio_ctx_wav`
LabelTextNoIndex(l) ==
    l.stage \o "_" \o l.ctx \o l.sfx

LabelText(l) ==
    IF l.i = -1 THEN l.stage \o "_" \o l.ctx \o l.sfx
    ELSE l.stage \o "_" \o ToString(l.i) \o "_" \o l.ctx \o l.sfx

Cmd(label, input, output, ss, t, af, codecArgs) ==
    [label |-> label, input |-> input, output |-> output, ss |-> ss,
     t |-> t, af |-> af, codecArgs |-> codecArgs]

Filter(name, arg, all) == [name |-> name, arg |-> arg, all |-> all]

baseArgs == <<"-b:v", "5000k", "-c:v", "libx264">>
copyArgs == <<"-c", "copy">>

\* `aresample=async=1,adelay=${Math.floor(startTime * 1000)}:all=true`
AudioFilterDelayFirst(startTime) ==
    <<Filter("adelay", FloorMs(startTime), TRUE),
      Filter("aresample", 1, FALSE)>>
AudioFilter(startTime) ==
    <<Filter("aresample", 1, FALSE),
      Filter("adelay", FloorMs(startTime), TRUE)>>

\* `ffmpegConcatFile += "file '" + tmpFileName + "'\n"`
ConcatAppendFront(file, name) == <<name>> \o file
ConcatAppend(file, name) == Append(file, name)

\* ------------------------------------------------------------ encoder cache
LibfdkArgs   == <<"-c:a", "libfdk_aac", "-b:a", "256k", "-profile:a",
                  "aac_low", "-vbr", "0", "-ar", "48000">>
FallbackArgs == <<"-c:a", "aac", "-b:a", "256k", "-ar", "48000">>
WavArgs      == <<"-ar", "48000", "-ac", "1", "-c:a", "pcm_s16le">>

\* what spawnSync('ffmpeg', ['-hide_banner', '-encoders']) can come back with
ProbeOutcomes == {"listed", "notlisted", "nonzero", "throws"}

\* getAudioEncoderArgs: the cache after the call, and whether it probed
GetAudioEncoderArgsIgnoreStatus(cache, probe) ==
    IF cache # Undefined THEN [cache |-> cache, probed |-> FALSE]
    ELSE [cache |-> IF probe \in {"listed", "nonzero"}
                       THEN LibfdkArgs ELSE FallbackArgs,
          probed |-> TRUE]

GetAudioEncoderArgsNoCache(cache, probe) ==
    [cache |-> IF probe = "listed" THEN LibfdkArgs ELSE FallbackArgs,
     probed |-> TRUE]

GetAudioEncoderArgs(cache, probe) ==
    IF cache # Undefined THEN [cache |-> cache, probed |-> FALSE]
    ELSE [cache |-> IF probe = "listed" THEN LibfdkArgs ELSE FallbackArgs,
          probed |-> TRUE]

\* --------------------------------------------------------------------- runs
InitRun ==
    [pc |-> "idle",            \* idle, convert, render, concat, audio: the
                               \* command awaited; done, failed: returned, threw
     segments |-> <<>>,        \* const segments
     i |-> 0,                  \* the render loop's index
     tmpFiles |-> <<>>,        \* const tmpFiles
     ffmpegConcatFile |-> <<>>,\* let ffmpegConcatFile, one entry per line
     cmds |-> <<>>,            \* commands handed to runFfmpegCommandAsync
     results |-> <<>>,         \* their outcomes, in order
     error |-> "none",         \* what the run threw
     manifest |-> <<>>,        \* what writeFileSync wrote
     wrote |-> FALSE,          \* whether writeFileSync has run
     created |-> {},           \* paths this run created
     accessed |-> {},          \* paths this run created, read or deleted
     deleted |-> <<>>,         \* paths this run removed, in order
     probe |-> "none"]         \* what this run's encoder probe came back with

Ctx(r) == Basename(args[r].inputPath)

\* Path.resolve(outputDir, basename + '_normalized' + ext)
OutputPath(r, ext) ==
    Resolve("out", FileName("", Ctx(r), "_normalized", -1, ext))

TmpPath(ctxName, role, n, ext) ==
    Resolve(tmpDir, FileName(g_tempFilePrefix, ctxName, role, n, ext))

\* the body of the render loop for index i, up to its await
RenderStepNoOffset(rr, i, ctxName, sourceOffset) ==
    LET seg         == rr.segments[i + 1]
        duration    == RoundMs(seg.end - seg.start)
        tmpFileName == FileName(g_tempFilePrefix, ctxName, "_seg", i, ".m4v")
        dst         == Resolve(tmpDir, tmpFileName)
        tmpSource   == rr.tmpFiles[1]
        cmd == IF seg.type = "gap"
                 THEN Cmd(Label("rendergap", i, ctxName, ""), NoPath, dst,
                          0, duration, <<>>, baseArgs)
                 ELSE Cmd(Label("extractseg", i, ctxName, ""), tmpSource, dst,
                          seg.start, duration, <<>>, copyArgs)
    IN  [rr EXCEPT !.pc = "render", !.i = i,
                   !.ffmpegConcatFile = ConcatAppend(@, tmpFileName),
                   !.tmpFiles = Append(@, dst),
                   !.cmds = Append(@, cmd),
                   !.accessed = IF seg.type = "gap" THEN @
                                ELSE @ \cup {tmpSource}]

RenderStep(rr, i, ctxName, sourceOffset) ==
    LET seg         == rr.segments[i + 1]
        duration    == RoundMs(seg.end - seg.start)
        tmpFileName == FileName(g_tempFilePrefix, ctxName, "_seg", i, ".m4v")
        dst         == Resolve(tmpDir, tmpFileName)
        tmpSource   == rr.tmpFiles[1]
        cmd == IF seg.type = "gap"
                 THEN Cmd(Label("rendergap", i, ctxName, ""), NoPath, dst,
                          0, duration, <<>>, baseArgs)
                 ELSE Cmd(Label("extractseg", i, ctxName, ""), tmpSource, dst,
                          seg.start - sourceOffset, duration, <<>>, copyArgs)
    IN  [rr EXCEPT !.pc = "render", !.i = i,
                   !.ffmpegConcatFile = ConcatAppend(@, tmpFileName),
                   !.tmpFiles = Append(@, dst),
                   !.cmds = Append(@, cmd),
                   !.accessed = IF seg.type = "gap" THEN @
                                ELSE @ \cup {tmpSource}]

\* after the loop: write the manifest and start the concat command
ConcatStep(rr, ctxName, outputPath) ==
    LET concatTempPath == TmpPath(ctxName, "_concat", -1, ".txt")
        segPaths == {Resolve(tmpDir, rr.ffmpegConcatFile[k]) :
                        k \in 1..Len(rr.ffmpegConcatFile)}
    IN  [rr EXCEPT !.pc = "concat",
                   !.manifest = rr.ffmpegConcatFile, !.wrote = TRUE,
                   !.tmpFiles = Append(@, concatTempPath),
                   !.cmds = Append(@, Cmd(Label("concat", -1, ctxName, ""),
                                          concatTempPath, outputPath,
                                          0, 0, <<>>, copyArgs)),
                   !.created = @ \cup {concatTempPath},
                   !.accessed = @ \cup {concatTempPath} \cup segPaths]

\* `for (let i = ...; i < segments.length; ...)` entered at index i
LoopFromEarlyConcat(rr, i, ctxName, sourceOffset, outputPath) ==
    IF i + 1 < Len(rr.segments)
       THEN RenderStep(rr, i, ctxName, sourceOffset)
       ELSE ConcatStep(rr, ctxName, outputPath)

LoopFrom(rr, i, ctxName, sourceOffset, outputPath) ==
    IF i < Len(rr.segments)
       THEN RenderStep(rr, i, ctxName, sourceOffset)
       ELSE ConcatStep(rr, ctxName, outputPath)

\* the files the synchronous code after index i's check adds to the disk
LoopFromFiles(rr, i, ctxName) ==
    IF i < Len(rr.segments) THEN {}
    ELSE {TmpPath(ctxName, "_concat", -1, ".txt")}

\* `for (const path of tmpFiles) fs.rmSync(path)`: rmSync throws on a path
\* that does not exist, and the loop ends there
RECURSIVE RmAllKeepLast(_, _, _)
RmAllKeepLast(paths, disk, removed) ==
    IF Len(paths) <= 1 THEN [fs |-> disk, deleted |-> removed, ok |-> TRUE]
    ELSE IF Head(paths) \notin disk
        THEN [fs |-> disk, deleted |-> removed, ok |-> FALSE]
    ELSE RmAllKeepLast(Tail(paths), disk \ {Head(paths)},
                       Append(removed, Head(paths)))

RECURSIVE RmAll(_, _, _)
RmAll(paths, disk, removed) ==
    IF paths = <<>> THEN [fs |-> disk, deleted |-> removed, ok |-> TRUE]
    ELSE IF Head(paths) \notin disk
        THEN [fs |-> disk, deleted |-> removed, ok |-> FALSE]
    ELSE RmAll(Tail(paths), disk \ {Head(paths)}, Append(removed, Head(paths)))

FailRetry(rr, ok) ==
    [rr EXCEPT !.results = Append(@, ok),
               !.cmds = Append(@, rr.cmds[Len(rr.cmds)])]

\* a rejected await: the exception leaves the function
Fail(rr, ok) ==
    [rr EXCEPT !.pc = "failed", !.results = Append(@, ok),
               !.error = rr.cmds[Len(rr.cmds)].label.stage]

\* normalizeVideoTrackToM4V from its entry to its first await
CallVideo(r) ==
    /\ run[r].pc = "idle"
    /\ args[r].fn = "video"
    /\ LET a   == args[r].analysis
           err == ValidateVideo(a)
       IN  IF err # "none"
             THEN run' = [run EXCEPT ![r].pc = "failed", ![r].error = err]
             ELSE LET tmpSource == TmpPath(Ctx(r), "_full", -1, ".m4v")
                  IN  run' = [run EXCEPT ![r] =
                         [@ EXCEPT !.pc = "convert",
                                   !.segments = PlanSegments(a.gaps, a.endTime),
                                   !.tmpFiles = <<tmpSource>>,
                                   !.cmds = <<Cmd(Label("convert", -1, Ctx(r), ""),
                                                  args[r].inputPath, tmpSource,
                                                  0, 0, <<>>, baseArgs)>>]]
    /\ UNCHANGED <<args, fs, g_audioEncoderArgs, probes, cli, batch>>

\* the convert command settles; on success the loop starts
ConvertReturns(r) ==
    /\ run[r].pc = "convert"
    /\ \E ok \in BOOLEAN :
         IF ~ok
           THEN /\ run' = [run EXCEPT ![r] = Fail(@, ok)]
                /\ fs' = fs
           ELSE LET tmpSource == run[r].tmpFiles[1]
                    rr == [run[r] EXCEPT !.results = Append(@, ok),
                                         !.created = @ \cup {tmpSource},
                                         !.accessed = @ \cup {tmpSource}]
                IN  /\ run' = [run EXCEPT ![r] =
                           LoopFrom(rr, 0, Ctx(r), args[r].analysis.startTime,
                                    OutputPath(r, ".m4v"))]
                    /\ fs' = fs \cup {tmpSource} \cup LoopFromFiles(rr, 0, Ctx(r))
    /\ UNCHANGED <<args, g_audioEncoderArgs, probes, cli, batch>>

\* the render command of segment i settles; on success the loop goes on
RenderReturns(r) ==
    /\ run[r].pc = "render"
    /\ \E ok \in BOOLEAN :
         IF ~ok
           THEN /\ run' = [run EXCEPT ![r] = Fail(@, ok)]
                /\ fs' = fs
           ELSE LET dst == run[r].tmpFiles[Len(run[r].tmpFiles)]
                    rr == [run[r] EXCEPT !.results = Append(@, ok),
                                         !.created = @ \cup {dst},
                                         !.accessed = @ \cup {dst}]
                IN  /\ run' = [run EXCEPT ![r] =
                           LoopFrom(rr, run[r].i + 1, Ctx(r),
                                    args[r].analysis.startTime,
                                    OutputPath(r, ".m4v"))]
                    /\ fs' = fs \cup {dst}
                                \cup LoopFromFiles(rr, run[r].i + 1, Ctx(r))
    /\ UNCHANGED <<args, g_audioEncoderArgs, probes, cli, batch>>

\* the concat command settles; on success the temp files are removed
ConcatReturns(r) ==
    /\ run[r].pc = "concat"
    /\ \E ok \in BOOLEAN :
         IF ~ok
           THEN /\ run' = [run EXCEPT ![r] = Fail(@, ok)]
                /\ fs' = fs
           ELSE LET out == OutputPath(r, ".m4v")
                    rm  == RmAll(run[r].tmpFiles, fs \cup {out}, <<>>)
                IN  /\ run' = [run EXCEPT ![r] =
                           [@ EXCEPT !.pc = IF rm.ok THEN "done" ELSE "failed",
                                     !.error = IF rm.ok THEN "none" ELSE "rmSync",
                                     !.results = Append(@, ok),
                                     !.deleted = rm.deleted,
                                     !.accessed = @ \cup
                                        {rm.deleted[k] : k \in 1..Len(rm.deleted)}]]
                    /\ fs' = rm.fs
    /\ UNCHANGED <<args, g_audioEncoderArgs, probes, cli, batch>>

\* normalizeAudioTrack, with normalizeAudioTrackToAAC / ToWav, to the await
CallAudio(r) ==
    /\ run[r].pc = "idle"
    /\ args[r].fn = "audio"
    /\ LET a   == args[r].analysis
           err == ValidateAudio(a, args[r].codec)
       IN  IF err # "none"
             THEN /\ run' = [run EXCEPT ![r].pc = "failed", ![r].error = err]
                  /\ UNCHANGED <<g_audioEncoderArgs, probes>>
           ELSE IF args[r].codec = "wav"
             THEN /\ run' = [run EXCEPT ![r] =
                         [@ EXCEPT !.pc = "audio",
                                   !.cmds = <<Cmd(Label("audio", -1, Ctx(r), "_wav"),
                                                  args[r].inputPath,
                                                  OutputPath(r, ".wav"), 0, 0,
                                                  AudioFilter(a.startTime),
                                                  WavArgs)>>]]
                  /\ UNCHANGED <<g_audioEncoderArgs, probes>>
           ELSE \E probe \in ProbeOutcomes :
                  LET enc == GetAudioEncoderArgs(g_audioEncoderArgs, probe)
                  IN  /\ g_audioEncoderArgs' = enc.cache
                      /\ probes' = IF enc.probed THEN probes + 1 ELSE probes
                      /\ run' = [run EXCEPT ![r] =
                            [@ EXCEPT !.pc = "audio",
                                      !.probe = IF enc.probed THEN probe
                                                ELSE "none",
                                      !.cmds = <<Cmd(Label("audio", -1, Ctx(r), ""),
                                                     args[r].inputPath,
                                                     OutputPath(r, ".aac"), 0, 0,
                                                     AudioFilter(a.startTime),
                                                     enc.cache)>>]]
    /\ UNCHANGED <<args, fs, cli, batch>>

\* the audio command settles
AudioReturns(r) ==
    /\ run[r].pc = "audio"
    /\ \E ok \in BOOLEAN :
         IF ~ok
           THEN /\ run' = [run EXCEPT ![r] = Fail(@, ok)]
                /\ fs' = fs
           ELSE /\ run' = [run EXCEPT ![r] =
                      [@ EXCEPT !.pc = "done", !.results = Append(@, ok)]]
                /\ fs' = fs \cup {run[r].cmds[1].output}
    /\ UNCHANGED <<args, g_audioEncoderArgs, probes, cli, batch>>

\* ------------------------------------------------- the normalize-track script
\* what the script finds for one -i option: whether the file exists and what
\* analyzeTrack returns for it (cam files are video, mic files are audio)
CliVideoAnalysis ==
    [isVideo |-> TRUE, startTime |-> 0, endTime |-> 2, gaps |-> <<>>,
     videoSize |-> [w |-> 1280, h |-> 720]]
CliAudioAnalysis ==
    [isVideo |-> FALSE, startTime |-> 1, endTime |-> Null, gaps |-> NotArray,
     videoSize |-> NoSize]

CliInputs ==
    {[path |-> p, exists |-> e,
      analysis |-> IF Basename(p) = "cam" THEN CliVideoAnalysis
                                          ELSE CliAudioAnalysis] :
        p \in InputPaths, e \in BOOLEAN}

CliInputLists == UNION {[1..n -> CliInputs] : n \in 1..MaxInputs}

CliOff ==
    [pc |-> "off",             \* start; normalize: a normalize call awaited;
                               \* combine: the combine command awaited; done;
                               \* exit1: process.exit(1); crashed: a rejection
     inputs |-> <<>>,          \* args.values.input
     audioCodec |-> "aac",
     k |-> 0,                  \* position of the loop in inputs
     videoPath |-> NoPath,     \* let videoPath (NoPath: undefined)
     audioPath |-> NoPath,
     combinedOutputPath |-> NoPath,
     normalized |-> <<>>,      \* "video" / "audio" per input normalized
     outputs |-> {},           \* the normalized files written
     combines |-> 0,           \* combine commands invoked
     combineInputs |-> <<>>,   \* the -i files of the combine command
     combineOk |-> FALSE,      \* the combine command succeeded
     removed |-> <<>>]         \* files the script removed

\* the loop head for input k up to `await analyzeTrack` and the call that
\* follows it, or, past the last input, the combine step up to its await:
\* the script's state, and the call handed to run 1
NextInputCombineEither(c, k) ==
    IF k > Len(c.inputs)
      THEN [cli |-> IF c.videoPath # NoPath \/ c.audioPath # NoPath
                      THEN [c EXCEPT !.pc = "combine", !.k = k,
                                     !.combines = @ + 1,
                                     !.combineInputs = <<c.videoPath, c.audioPath>>]
                      ELSE [c EXCEPT !.pc = "done", !.k = k],
            call |-> NoCall]
    ELSE IF ~c.inputs[k].exists
      THEN [cli |-> [c EXCEPT !.pc = "exit1", !.k = k], call |-> NoCall]
    ELSE [cli |-> [c EXCEPT !.pc = "normalize", !.k = k],
          call |-> Call(IF c.inputs[k].analysis.isVideo THEN "video" ELSE "audio",
                        c.inputs[k].path, c.inputs[k].analysis, c.audioCodec)]

NextInput(c, k) ==
    IF k > Len(c.inputs)
      THEN [cli |-> IF /\ c.audioCodec = "aac"
                       /\ c.videoPath # NoPath
                       /\ c.audioPath # NoPath
                       /\ c.combinedOutputPath # NoPath
                      THEN [c EXCEPT !.pc = "combine", !.k = k,
                                     !.combines = @ + 1,
                                     !.combineInputs = <<c.videoPath, c.audioPath>>]
                      ELSE [c EXCEPT !.pc = "done", !.k = k],
            call |-> NoCall]
    ELSE IF ~c.inputs[k].exists
      THEN [cli |-> [c EXCEPT !.pc = "exit1", !.k = k], call |-> NoCall]
    ELSE [cli |-> [c EXCEPT !.pc = "normalize", !.k = k],
          call |-> Call(IF c.inputs[k].analysis.isVideo THEN "video" ELSE "audio",
                        c.inputs[k].path, c.inputs[k].analysis, c.audioCodec)]

\* hand the script's next state and call to the variables; run 1 is the call
Advance(n) ==
    /\ cli' = n.cli
    /\ args' = [args EXCEPT ![1] = n.call]
    /\ run' = [run EXCEPT ![1] = InitRun]

\* the script from its start to its first await
CliStart ==
    /\ cli.pc = "start"
    /\ IF cli.audioCodec \notin {"aac", "wav"}
         THEN /\ cli' = [cli EXCEPT !.pc = "exit1"]
              /\ UNCHANGED <<args, run>>
         ELSE Advance(NextInput(cli, 1))
    /\ UNCHANGED <<fs, g_audioEncoderArgs, probes, batch>>

\* the awaited normalize call returned: record its output, go on
CliNormalized ==
    /\ cli.pc = "normalize"
    /\ run[1].pc = "done"
    /\ LET in  == cli.inputs[cli.k]
           out == OutputPath(1, IF in.analysis.isVideo THEN ".m4v"
                                ELSE IF cli.audioCodec = "wav" THEN ".wav"
                                ELSE ".aac")
           c1  == [cli EXCEPT
                     !.normalized = Append(@, args[1].fn),
                     !.outputs = @ \cup {out},
                     !.videoPath = IF in.analysis.isVideo THEN out ELSE @,
                     !.combinedOutputPath =
                         IF in.analysis.isVideo
                            THEN Resolve("out", FileName("", Basename(in.path),
                                                         "_combined", -1, ".mp4"))
                            ELSE @,
                     !.audioPath = IF ~in.analysis.isVideo /\ cli.audioCodec = "aac"
                                      THEN out ELSE @]
       IN  Advance(NextInput(c1, cli.k + 1))
    /\ UNCHANGED <<fs, g_audioEncoderArgs, probes, batch>>

\* the awaited normalize call threw: nothing catches it
CliCrashed ==
    /\ cli.pc = "normalize"
    /\ run[1].pc = "failed"
    /\ cli' = [cli EXCEPT !.pc = "crashed"]
    /\ UNCHANGED <<args, run, fs, g_audioEncoderArgs, probes, batch>>

\* the combine command settles; on success both normalized files are removed
CombineReturnsAlwaysRm ==
    /\ cli.pc = "combine"
    /\ \E ok \in BOOLEAN :
         /\ cli' = [cli EXCEPT !.pc = IF ok THEN "done" ELSE "crashed",
                               !.combineOk = ok,
                               !.removed = <<cli.videoPath, cli.audioPath>>]
         /\ fs' = (fs \cup (IF ok THEN {cli.combinedOutputPath} ELSE {}))
                     \ {cli.videoPath, cli.audioPath}
    /\ UNCHANGED <<args, run, g_audioEncoderArgs, probes, batch>>

CombineReturns ==
    /\ cli.pc = "combine"
    /\ \E ok \in BOOLEAN :
         IF ~ok
           THEN /\ cli' = [cli EXCEPT !.pc = "crashed"]
                /\ fs' = fs
           ELSE LET rm == RmAll(<<cli.videoPath, cli.audioPath>>,
                                fs \cup {cli.combinedOutputPath}, <<>>)
                IN  /\ cli' = [cli EXCEPT !.pc = IF rm.ok THEN "done" ELSE "crashed",
                                          !.combineOk = TRUE,
                                          !.removed = rm.deleted]
                    /\ fs' = rm.fs
    /\ UNCHANGED <<args, run, g_audioEncoderArgs, probes, batch>>

\* ------------------------------------------------------------ the batch script
\* fs.readdirSync(CACHE_DIR), directories only
roomFolders == [k \in 1..MaxRooms |-> k]

\* roomFolders.filter(room => selected.includes(room))
RECURSIVE SelectRooms(_, _)
SelectRooms(folders, selected) ==
    IF folders = <<>> THEN <<>>
    ELSE (IF Head(folders) \in selected THEN <<Head(folders)>> ELSE <<>>)
            \o SelectRooms(Tail(folders), selected)

\* targetRooms.slice(from, to), from and to counted from 0
Slice(s, from, to) ==
    SubSeq(s, from + 1, IF to < Len(s) THEN to ELSE Len(s))

\* `for (let i = 0; i < targetRooms.length; i += BATCH_SIZE) batches.push(...)`
RECURSIVE SplitFrom(_, _, _)
SplitFrom(rooms, i, size) ==
    IF i >= Len(rooms) THEN <<>>
    ELSE <<Slice(rooms, i, i + size)>> \o SplitFrom(rooms, i + size, size)

\* one room of a batch: where its callback is suspended, and its result
\*   idle      not started
\*   manifest  processRoom awaits generateManifest
\*   group     processRoom awaits normalizeTimestampGroup
\*   returned  processRoom returned or threw; the callback awaits it
\*   settled   the callback returned {roomName, success, error}
RoomIdle ==
    [st |-> "idle", left |-> 0, merged |-> FALSE, success |-> FALSE,
     thrown |-> FALSE, batch |-> 0]

\* processRoom from its entry to its first await, or to its early return or
\* throw (folder missing, no .webm file, readdirSync throwing)
RoomStarts(i) ==
    {[RoomIdle EXCEPT !.st = "returned", !.batch = i],
     [RoomIdle EXCEPT !.st = "returned", !.batch = i, !.thrown = TRUE]}
    \cup {[RoomIdle EXCEPT !.st = "manifest", !.batch = i, !.left = g] :
              g \in 0..MaxGroups}

BatchOff ==
    [pc |-> "off",            \* start; running: processBatch awaited;
                              \* pause: the timer awaited; done; exit0
     targetRooms |-> <<>>,
     BATCH_SIZE |-> 1,
     batches |-> <<>>,
     i |-> 0,                 \* index of the batch in hand, from 1
     rooms |-> [k \in 1..MaxRooms |-> RoomIdle],
     successCount |-> 0,
     failCount |-> 0]

BatchOf(b, i) == {b.batches[i][j] : j \in 1..Len(b.batches[i])}

\* Promise.allSettled: every callback of the batch has returned
AnySettled(b) ==
    \E room \in BatchOf(b, b.i) : b.rooms[room].st = "settled"

AllSettled(b) ==
    \A room \in BatchOf(b, b.i) : b.rooms[room].st = "settled"

\* processBatch up to its await: roomNames.map starts every room in turn
StartBatch(b, i, starts) ==
    [b EXCEPT !.pc = "running", !.i = i,
              !.rooms = [k \in 1..MaxRooms |->
                            IF k \in BatchOf(b, i) THEN starts[k] ELSE @[k]]]

\* main from the room filter to the await of the first batch
BatchMain ==
    /\ batch.pc = "start"
    /\ LET bs == SplitFrom(batch.targetRooms, 0, batch.BATCH_SIZE)
           b1 == [batch EXCEPT !.batches = bs]
       IN  IF batch.targetRooms = <<>>
             THEN batch' = [batch EXCEPT !.pc = "exit0"]
             ELSE \E starts \in [BatchOf(b1, 1) -> RoomStarts(1)] :
                      batch' = StartBatch(b1, 1, starts)
    /\ UNCHANGED <<args, run, fs, g_audioEncoderArgs, probes, cli>>

\* a suspended room is resumed and runs to its next await
RoomResumes(room) ==
    /\ batch.pc \in {"running", "pause"}
    /\ LET rm == batch.rooms[room]
       IN  \/ /\ rm.st = "manifest"
              /\ IF rm.left = 0
                   THEN batch' = [batch EXCEPT !.rooms[room].st = "returned"]
                   ELSE \E ok \in BOOLEAN :
                          batch' = [batch EXCEPT !.rooms[room].st = "group",
                                                 !.rooms[room].merged = ok]
           \/ /\ rm.st = "group"
              /\ IF rm.left = 1
                   THEN batch' = [batch EXCEPT !.rooms[room].st = "returned",
                                               !.rooms[room].left = 0,
                                               !.rooms[room].success = rm.merged]
                   ELSE \E ok \in BOOLEAN :
                          batch' = [batch EXCEPT
                                      !.rooms[room].left = @ - 1,
                                      !.rooms[room].merged = @ \/ ok]
           \/ /\ rm.st = "returned"
              /\ batch' = [batch EXCEPT
                             !.rooms[room].st = "settled",
                             !.rooms[room].success = rm.success /\ ~rm.thrown]
    /\ UNCHANGED <<args, run, fs, g_audioEncoderArgs, probes, cli>>

\* processBatch returns: main counts the results, then pauses or ends
BatchSettled ==
    /\ batch.pc = "running"
    /\ AllSettled(batch)
    /\ LET rs == BatchOf(batch, batch.i)
           ok == Cardinality({room \in rs : batch.rooms[room].success})
       IN  batch' = [batch EXCEPT
                       !.successCount = @ + ok,
                       !.failCount = @ + (Cardinality(rs) - ok),
                       !.pc = IF batch.i < Len(batch.batches) THEN "pause"
                                                              ELSE "done"]
    /\ UNCHANGED <<args, run, fs, g_audioEncoderArgs, probes, cli>>

\* the pause timer fires: the loop goes on to the next batch
PauseEnds ==
    /\ batch.pc = "pause"
    /\ \E starts \in [BatchOf(batch, batch.i + 1) -> RoomStarts(batch.i + 1)] :
          batch' = StartBatch(batch, batch.i + 1, starts)
    /\ UNCHANGED <<args, run, fs, g_audioEncoderArgs, probes, cli>>

\* ----------------------------------------------------------- specifications
InitCommon ==
    /\ run = [r \in Runs |-> InitRun]
    /\ fs = {}
    /\ g_audioEncoderArgs = Undefined
    /\ probes = 0
    /\ batch = BatchOff

\* one call, of either exported function, with any arguments
Init ==
    /\ \E c \in VideoCalls \cup AudioCalls :
          args = [r \in Runs |-> IF r = 1 THEN c ELSE NoCall]
    /\ cli = CliOff
    /\ InitCommon

\* two calls in one process, free to interleave at their awaits
InitConc ==
    /\ args \in [Runs -> ConcCalls]
    /\ cli = CliOff
    /\ InitCommon

Next ==
    \E r \in Runs :
        \/ CallVideo(r)
        \/ ConvertReturns(r)
        \/ RenderReturns(r)
        \/ ConcatReturns(r)
        \/ CallAudio(r)
        \/ AudioReturns(r)

Spec == Init /\ [][Next]_vars
SpecConc == InitConc /\ [][Next]_vars

\* one run of the script, with any list of inputs and any --audio-codec
InitCLI ==
    /\ args = [r \in Runs |-> NoCall]
    /\ \E l \in CliInputLists, c \in Codecs :
          cli = [CliOff EXCEPT !.pc = "start", !.inputs = l, !.audioCodec = c]
    /\ InitCommon

NextCLI ==
    \/ CliStart
    \/ CliNormalized
    \/ CliCrashed
    \/ CombineReturns
    \/ CallVideo(1)
    \/ ConvertReturns(1)
    \/ RenderReturns(1)
    \/ ConcatReturns(1)
    \/ CallAudio(1)
    \/ AudioReturns(1)

SpecCLI == InitCLI /\ [][NextCLI]_vars

\* one run of the batch script, with any selection of rooms and batch size
InitBatch ==
    /\ args = [r \in Runs |-> NoCall]
    /\ cli = CliOff
    /\ run = [r \in Runs |-> InitRun]
    /\ fs = {}
    /\ g_audioEncoderArgs = Undefined
    /\ probes = 0
    /\ \E selected \in SUBSET (1..MaxRooms), size \in 1..MaxBatchSize :
          batch = [BatchOff EXCEPT
                     !.pc = "start",
                     !.targetRooms = SelectRooms(roomFolders, selected),
                     !.BATCH_SIZE = size]

NextBatch ==
    \/ BatchMain
    \/ \E room \in 1..MaxRooms : RoomResumes(room)
    \/ BatchSettled
    \/ PauseEnds

SpecBatch == InitBatch /\ [][NextBatch]_vars

\* ------------------------------------------------------------------ claims
Video(r)   == args[r].fn = "video"
Audio(r)   == args[r].fn = "audio"
Gaps(r)    == args[r].analysis.gaps
EndTime(r) == args[r].analysis.endTime

\* the planner has run: the run got past its guards
Planned(r) == Video(r) /\ run[r].cmds # <<>>

\* a gap list as the analysis promises it: every gap inside [0, E] and not
\* empty, the list ascending and without overlap
ValidGapList(g, E) ==
    /\ IsArray(g)
    /\ \A k \in 1..Len(g) : 0 <= g[k].start /\ g[k].start < g[k].end /\ g[k].end <= E
    /\ \A k \in 1..(Len(g) - 1) : g[k].end <= g[k + 1].start

ValidPlan(r) == Planned(r) /\ EndTime(r) > 0 /\ ValidGapList(Gaps(r), EndTime(r))

RECURSIVE SumDur(_)
SumDur(s) == IF s = <<>> THEN 0 ELSE (Head(s).end - Head(s).start) + SumDur(Tail(s))

\* C1: for E > 0 and a valid gap list the planned segments partition [0, E]:
\* the first starts at 0, each ends where the next starts, none is empty,
\* the last ends at E and the durations add up to E.
C1_Partition ==
    \A r \in Runs : ValidPlan(r) =>
        LET s == run[r].segments
        IN  /\ Len(s) >= 1
            /\ s[1].start = 0
            /\ \A k \in 1..(Len(s) - 1) : s[k].end = s[k + 1].start
            /\ \A k \in 1..Len(s) : s[k].start < s[k].end
            /\ s[Len(s)].end = EndTime(r)
            /\ SumDur(s) = EndTime(r)

C1_Witness ==
    \E r \in Runs :
        /\ ValidPlan(r)
        /\ Len(Gaps(r)) = 2
        /\ Len(run[r].segments) = 3
        /\ Gaps(r)[2].end = EndTime(r)

\* C2: when a reconstruction run has ended, on whatever path, none of the
\* temporary files it created is still on disk.
C2_TempFilesReleased ==
    \A r \in Runs :
        (Video(r) /\ run[r].pc \in {"done", "failed"}) =>
            run[r].created \cap fs = {}

\* C3: a call whose arguments break a precondition throws a validation error
\* with no command invoked, no probe run, no temp file registered or
\* written, and the disk and the encoder cache as they were.
PreconditionFails(c) ==
    \/ /\ c.fn = "video"
       /\ \/ ~c.analysis.isVideo
          \/ c.analysis.startTime = Null
          \/ c.analysis.endTime \in {Null, 0}
          \/ c.analysis.gaps = NotArray
          \/ c.analysis.videoSize.w = 0
          \/ c.analysis.videoSize.h = 0
    \/ /\ c.fn = "audio"
       /\ \/ c.analysis.isVideo
          \/ c.analysis.startTime = Null
          \/ c.codec \notin {"aac", "wav"}

C3_FailFast ==
    \A r \in Runs :
        (run[r].pc # "idle" /\ PreconditionFails(args[r])) =>
            /\ run[r].pc = "failed"
            /\ run[r].error \in ValidationErrors
            /\ run[r].cmds = <<>>
            /\ run[r].tmpFiles = <<>>
            /\ ~run[r].wrote
            /\ fs = {}
            /\ probes = 0
            /\ g_audioEncoderArgs = Undefined

C3_Witness ==
    \E r \in Runs :
        /\ Video(r)
        /\ run[r].pc = "failed"
        /\ args[r].analysis.isVideo
        /\ args[r].analysis.startTime # Null
        /\ args[r].analysis.endTime > 0
        /\ IsArray(Gaps(r))
        /\ args[r].analysis.videoSize.w # 0
        /\ args[r].analysis.videoSize.h = 0

\* C4: the commands of a reconstruction run are invoked in stage order, each
\* once; a failed command is the last one invoked and leaves the run failed;
\* a run whose commands all succeeded has invoked all of them and succeeded.
ExpectedStage(r, k) ==
    LET n == Len(run[r].segments)
    IN  IF k = 1 THEN [stage |-> "convert", i |-> -1]
        ELSE IF k = n + 2 THEN [stage |-> "concat", i |-> -1]
        ELSE [stage |-> IF run[r].segments[k - 1].type = "gap"
                           THEN "rendergap" ELSE "extractseg",
              i |-> k - 2]

C4_AbortAtFirstFailure ==
    \A r \in Runs : Planned(r) =>
        LET c   == run[r].cmds
            res == run[r].results
            n   == Len(run[r].segments)
        IN  /\ Len(c) <= n + 2
            /\ Len(res) <= Len(c) /\ Len(c) <= Len(res) + 1
            /\ \A k \in 1..Len(c) :
                  /\ c[k].label.stage = ExpectedStage(r, k).stage
                  /\ c[k].label.i = ExpectedStage(r, k).i
            /\ \A k \in 1..Len(res) :
                  ~res[k] => /\ k = Len(res)
                             /\ k = Len(c)
                             /\ run[r].pc = "failed"
            /\ run[r].pc = "failed" => ~res[Len(res)]
            /\ (Len(res) = n + 2 /\ res[n + 2]) => run[r].pc = "done"
            /\ run[r].pc = "done" => Len(c) = n + 2

C4_Witness ==
    \E r \in Runs :
        /\ Planned(r)
        /\ run[r].pc = "failed"
        /\ Len(run[r].segments) = 3
        /\ Len(run[r].cmds) = 3
        /\ run[r].results = <<TRUE, TRUE, FALSE>>

\* C5: the manifest written has one entry per planned segment, and entry i
\* names the file that the render command of segment i wrote, in order and
\* without repetition.
C5_ManifestInOrder ==
    \A r \in Runs : run[r].wrote =>
        LET m == run[r].manifest
            s == run[r].segments
        IN  /\ Len(m) = Len(s)
            /\ \A k \in 1..Len(m) :
                  /\ m[k].role = "_seg" /\ m[k].n = k - 1
                  /\ Resolve(tmpDir, m[k]) = run[r].cmds[k + 1].output
                  /\ run[r].cmds[k + 1].label.i = k - 1
                  /\ run[r].cmds[k + 1].label.stage =
                        (IF s[k].type = "gap" THEN "rendergap" ELSE "extractseg")
            /\ \A j, k \in 1..Len(m) : j # k => m[j] # m[k]

C5_Witness ==
    \E r \in Runs :
        /\ run[r].wrote
        /\ run[r].pc = "done"
        /\ Len(run[r].manifest) = 3
        /\ run[r].segments[1].type = "gap"

\* C6: with no gaps and E > 0 the plan is the single source segment [0, E].
C6_NoGapIdentity ==
    \A r \in Runs :
        (Planned(r) /\ Gaps(r) = <<>> /\ EndTime(r) > 0) =>
            run[r].segments = <<Seg(0, EndTime(r), "src")>>

C6_Witness ==
    \E r \in Runs :
        Planned(r) /\ Gaps(r) = <<>> /\ EndTime(r) = MaxTime

\* C7: for a valid gap list, a first gap that starts at 0 makes the first
\* segment a gap segment, and a last gap that ends at E makes the last
\* segment a gap segment.
C7_LeadingTrailingGap ==
    \A r \in Runs :
        (ValidPlan(r) /\ Gaps(r) # <<>>) =>
            LET g == Gaps(r)
                s == run[r].segments
            IN  /\ g[1].start = 0 => s[1].type = "gap"
                /\ g[Len(g)].end = EndTime(r) => s[Len(s)].type = "gap"

C7_Witness ==
    \E r \in Runs :
        /\ ValidPlan(r)
        /\ Len(Gaps(r)) = 2
        /\ Gaps(r)[1].start = 0
        /\ Gaps(r)[2].end = EndTime(r)
        /\ Gaps(r)[1].end < Gaps(r)[2].start

\* C8: two reconstruction runs of different input files that are under way
\* at the same time have different context identifiers and touch no
\* temporary path in common.
Reconstructing(r) == Video(r) /\ run[r].pc \in {"convert", "render", "concat"}

C8_RunsDisjoint ==
    \A r1, r2 \in Runs :
        (/\ r1 # r2
         /\ args[r1].inputPath # args[r2].inputPath
         /\ Reconstructing(r1) /\ Reconstructing(r2)) =>
            /\ Ctx(r1) # Ctx(r2)
            /\ run[r1].accessed \cap run[r2].accessed = {}

\* C9: once all N segments of a valid plan are rendered, the sum of the
\* rendered durations is within N half milliseconds of E.
RECURSIVE SumT(_)
SumT(c) == IF c = <<>> THEN 0 ELSE Head(c).t + SumT(Tail(c))

Abs(x) == IF x < 0 THEN -x ELSE x

RenderCmds(r) == SubSeq(run[r].cmds, 2, Len(run[r].segments) + 1)

C9_RoundingBound ==
    \A r \in Runs :
        (ValidPlan(r) /\ run[r].pc \in {"concat", "done"}) =>
            2 * Abs(TicksPerMs * SumT(RenderCmds(r)) - EndTime(r))
                <= Len(run[r].segments) * TicksPerMs

C9_Witness ==
    \E r \in Runs :
        /\ ValidPlan(r)
        /\ run[r].pc = "done"
        /\ Len(run[r].segments) = 3
        /\ TicksPerMs * SumT(RenderCmds(r)) # EndTime(r)

\* C10: an audio call with a startTime and codec aac or wav invokes exactly
\* one command; its filter chain is the resample stage and then the delay
\* stage, the delay being the whole milliseconds of startTime, on all
\* channels.
AudioAccepted(r) ==
    /\ Audio(r)
    /\ run[r].pc # "idle"
    /\ ~args[r].analysis.isVideo
    /\ args[r].analysis.startTime # Null
    /\ args[r].codec \in {"aac", "wav"}

C10_ResampleThenDelay ==
    \A r \in Runs : AudioAccepted(r) =>
        /\ Len(run[r].cmds) = 1
        /\ LET af == run[r].cmds[1].af
               st == args[r].analysis.startTime
           IN  /\ Len(af) = 2
               /\ af[1].name = "aresample"
               /\ af[2].name = "adelay"
               /\ af[2].all
               /\ af[2].arg * TicksPerMs <= st
               /\ st < (af[2].arg + 1) * TicksPerMs

C10_Witness ==
    \E r \in Runs :
        /\ AudioAccepted(r)
        /\ args[r].codec = "wav"
        /\ args[r].analysis.startTime = 1234 * TicksPerMs + 1
        /\ run[r].pc = "done"
        /\ run[r].cmds[1].af[2].arg = 1234

\* C11: a probe that does not list the preferred encoder, exits non-zero or
\* cannot be run makes getAudioEncoderArgs return the fallback configuration
\* without an error; only a probe that succeeded and listed the encoder
\* gives the preferred configuration.
C11_EncoderFallback ==
    \A r \in Runs :
        run[r].probe # "none" =>
            /\ run[r].error = "none" \/ run[r].error = "audio"
            /\ Len(run[r].cmds) = 1
            /\ run[r].probe \in {"notlisted", "nonzero", "throws"} =>
                  run[r].cmds[1].codecArgs = FallbackArgs
            /\ run[r].cmds[1].codecArgs = LibfdkArgs => run[r].probe = "listed"
            /\ run[r].cmds[1].codecArgs \in {LibfdkArgs, FallbackArgs}

C11_Witness ==
    \E r \in Runs :
        /\ run[r].probe = "nonzero"
        /\ run[r].pc = "done"
        /\ g_audioEncoderArgs = FallbackArgs

\* C13: a run that succeeded tracked exactly the N + 2 files it created,
\* the intermediate, seg0..seg{N-1} and the manifest; it deleted nothing
\* before the concat command had succeeded, then each tracked file once, and
\* not the output file.
ExpectedTmpFiles(r) ==
    [k \in 1..(Len(run[r].segments) + 2) |->
        IF k = 1 THEN TmpPath(Ctx(r), "_full", -1, ".m4v")
        ELSE IF k = Len(run[r].segments) + 2
            THEN TmpPath(Ctx(r), "_concat", -1, ".txt")
        ELSE TmpPath(Ctx(r), "_seg", k - 2, ".m4v")]

Range(q) == {q[k] : k \in 1..Len(q)}

C13_TrackedAndDeletedOnce ==
    \A r \in Runs : Planned(r) =>
        LET n == Len(run[r].segments)
        IN  /\ run[r].deleted # <<>> =>
                  Len(run[r].results) = n + 2 /\ run[r].results[n + 2]
            /\ run[r].pc \in {"convert", "render", "concat"} =>
                  run[r].created \subseteq fs
            /\ run[r].pc = "done" =>
                  /\ run[r].tmpFiles = ExpectedTmpFiles(r)
                  /\ Cardinality(Range(run[r].tmpFiles)) = n + 2
                  /\ run[r].created = Range(run[r].tmpFiles)
                  /\ run[r].deleted = run[r].tmpFiles
                  /\ fs \cap Range(run[r].tmpFiles) = {}
                  /\ OutputPath(r, ".m4v") \in fs
                  /\ OutputPath(r, ".m4v") \notin Range(run[r].deleted)

C13_Witness ==
    \E r \in Runs :
        /\ Planned(r)
        /\ run[r].pc = "done"
        /\ Len(run[r].segments) = 3
        /\ Len(run[r].deleted) = 5

\* C14: the steps of a run go forward only: one convert, finished before any
\* render; each render finished before the next is invoked; the manifest
\* and the concat only after all N renders; cleanup only after the concat;
\* never two commands of the run in flight.
InFlight(r) == Len(run[r].cmds) - Len(run[r].results)

C14_ForwardOrder ==
    \A r \in Runs : Planned(r) =>
        LET c   == run[r].cmds
            res == run[r].results
            n   == Len(run[r].segments)
        IN  /\ InFlight(r) \in {0, 1}
            /\ InFlight(r) = 1 <=> run[r].pc \in {"convert", "render", "concat"}
            /\ Cardinality({k \in 1..Len(c) : c[k].label.stage = "convert"}) = 1
            /\ c[1].label.stage = "convert"
            /\ \A k \in 2..Len(c) : res[k - 1]
            /\ \A k \in 2..Len(c) :
                  IF k <= n + 1
                     THEN /\ c[k].label.stage \in {"rendergap", "extractseg"}
                          /\ c[k].label.i = k - 2
                     ELSE c[k].label.stage = "concat"
            /\ run[r].wrote <=> (Len(c) = n + 2)
            /\ run[r].wrote => \A k \in 1..(n + 1) : res[k]
            /\ run[r].deleted # <<>> => (Len(res) = n + 2 /\ res[n + 2])

C14_Witness ==
    \E r \in Runs :
        /\ Planned(r)
        /\ run[r].pc = "concat"
        /\ Len(run[r].segments) = 3
        /\ InFlight(r) = 1

\* C16: every planned segment is rendered once, by the command of its type:
\* a gap by rendergap, which reads no file; a source segment by extractseg
\* with stream copy from the intermediate, seeking to start - startTime;
\* either for the segment's duration rounded to the millisecond.
C16_RenderByType ==
    \A r \in Runs :
        (Planned(r) /\ run[r].pc \in {"concat", "done"}) =>
            LET s == run[r].segments
                c == run[r].cmds
            IN  /\ Len(c) = Len(s) + 2
                /\ \A k \in 1..Len(s) :
                      /\ c[k + 1].label.i = k - 1
                      /\ 2 * Abs(TicksPerMs * c[k + 1].t - (s[k].end - s[k].start))
                            <= TicksPerMs
                      /\ IF s[k].type = "gap"
                            THEN /\ c[k + 1].label.stage = "rendergap"
                                 /\ c[k + 1].input = NoPath
                                 /\ c[k + 1].codecArgs = baseArgs
                            ELSE /\ c[k + 1].label.stage = "extractseg"
                                 /\ c[k + 1].input =
                                       TmpPath(Ctx(r), "_full", -1, ".m4v")
                                 /\ c[k + 1].codecArgs = copyArgs
                                 /\ c[k + 1].ss =
                                       s[k].start - args[r].analysis.startTime

C16_Witness ==
    \E r \in Runs :
        /\ Planned(r)
        /\ run[r].pc = "done"
        /\ args[r].analysis.startTime = 1
        /\ Len(run[r].segments) = 3
        /\ run[r].segments[1].type = "gap"
        /\ run[r].segments[2].type = "src"
        /\ run[r].cmds[3].ss = run[r].segments[2].start - 1

\* C17: for a valid gap list and 0 <= startTime <= endTime, the seek position
\* of every extract command lies in [0, endTime - startTime].
C17_SeekInRange ==
    \A r \in Runs :
        (/\ ValidPlan(r)
         /\ 0 <= args[r].analysis.startTime
         /\ args[r].analysis.startTime <= EndTime(r)) =>
            \A k \in 1..Len(run[r].cmds) :
                run[r].cmds[k].label.stage = "extractseg" =>
                    /\ 0 <= run[r].cmds[k].ss
                    /\ run[r].cmds[k].ss <= EndTime(r) - args[r].analysis.startTime

\* C18: for a valid gap list no source segment is empty, no two source
\* segments follow each other, and two gaps that touch give two consecutive
\* gap segments.
C18_NoEmptyNoDoubleSource ==
    \A r \in Runs : ValidPlan(r) =>
        LET s == run[r].segments
            g == Gaps(r)
        IN  /\ \A k \in 1..Len(s) : s[k].type = "src" => s[k].start < s[k].end
            /\ \A k \in 1..(Len(s) - 1) :
                  ~(s[k].type = "src" /\ s[k + 1].type = "src")
            /\ \A k \in 1..(Len(g) - 1) :
                  g[k].end = g[k + 1].start =>
                      \E j \in 1..(Len(s) - 1) :
                          /\ s[j] = Seg(g[k].start, g[k].end, "gap")
                          /\ s[j + 1] = Seg(g[k + 1].start, g[k + 1].end, "gap")

C18_Witness ==
    \E r \in Runs :
        /\ ValidPlan(r)
        /\ Len(Gaps(r)) = 2
        /\ Gaps(r)[1].end = Gaps(r)[2].start
        /\ Gaps(r)[1].start > 0
        /\ Len(run[r].segments) = 3

\* C19: whatever the gap list, the gap segments of the plan are the input
\* gaps, one for one, in input order and with unchanged bounds.
IsGapSeg(x) == x.type = "gap"

GapSegs(s) ==
    LET q == SelectSeq(s, IsGapSeg)
    IN  [k \in 1..Len(q) |-> [start |-> q[k].start, end |-> q[k].end]]

C19_GapsUnaltered ==
    \A r \in Runs : Planned(r) => GapSegs(run[r].segments) = Gaps(r)

C19_Witness ==
    \E r \in Runs :
        /\ Planned(r)
        /\ Len(Gaps(r)) = 2
        /\ Gaps(r)[1].start = Gaps(r)[1].end
        /\ Gaps(r)[2].start < Gaps(r)[1].start
        /\ Gaps(r)[1].end > EndTime(r)

\* C15: over the calls of one process the encoder is probed at most once, by
\* the first call that needs the AAC encoder; every such call gets the
\* configuration of the first; a WAV call or a video call never probes.
AacStarted(r) ==
    Audio(r) /\ args[r].codec = "aac" /\ run[r].cmds # <<>>

C15_ProbeOnce ==
    /\ probes <= 1
    /\ probes = 1 <=> \E r \in Runs : AacStarted(r)
    /\ probes = 0 <=> g_audioEncoderArgs = Undefined
    /\ Cardinality({r \in Runs : run[r].probe # "none"}) = probes
    /\ \A r \in Runs :
          /\ AacStarted(r) => run[r].cmds[1].codecArgs = g_audioEncoderArgs
          /\ ~AacStarted(r) => run[r].probe = "none"
    /\ \A r1, r2 \in Runs :
          (AacStarted(r1) /\ AacStarted(r2)) =>
              run[r1].cmds[1].codecArgs = run[r2].cmds[1].codecArgs

C15_Witness ==
    /\ \A r \in Runs : AacStarted(r)
    /\ probes = 1
    /\ \E r \in Runs : run[r].probe = "listed"
    /\ \E r \in Runs : run[r].probe = "none" /\ run[r].pc = "done"

\* C12 as stated: the combine command is invoked exactly when the codec is
\* aac and the script normalized a video input and an audio input; at most
\* once, after every input, and never with wav.
CliEnded == cli.pc \in {"done", "exit1", "crashed"}

HasBoth ==
    /\ \E k \in 1..Len(cli.normalized) : cli.normalized[k] = "video"
    /\ \E k \in 1..Len(cli.normalized) : cli.normalized[k] = "audio"

C12_CombineIffPair ==
    /\ cli.combines <= 1
    /\ cli.combines = 1 => Len(cli.normalized) = Len(cli.inputs)
    /\ cli.audioCodec = "wav" => cli.combines = 0
    /\ CliEnded => (cli.combines = 1 <=> (cli.audioCodec = "aac" /\ HasBoth))

\* C12 as amended: the combine command is invoked exactly when the codec is
\* aac and every input of the command line was normalized, a video input
\* and an audio input among them; at most once, and never with wav.
C12_CombineIffAllNormalized ==
    /\ cli.combines <= 1
    /\ cli.audioCodec = "wav" => cli.combines = 0
    /\ cli.combines = 1 <=>
          /\ cli.audioCodec = "aac"
          /\ Len(cli.normalized) = Len(cli.inputs)
          /\ cli.inputs # <<>>
          /\ HasBoth

C12_Witness ==
    /\ cli.pc = "done"
    /\ cli.combines = 1
    /\ Len(cli.inputs) = 3
    /\ cli.normalized = <<"audio", "video", "audio">>

\* C20: the script removes the normalized video and audio files only once
\* the combine command has succeeded; when it failed or was not attempted,
\* every normalized file is still in place.
C20_RemoveOnlyAfterCombine ==
    /\ cli.removed # <<>> => cli.combineOk
    /\ ~cli.combineOk => (cli.removed = <<>> /\ cli.outputs \subseteq fs)
    /\ cli.combineOk => cli.combines = 1

C20_Witness ==
    /\ cli.pc = "crashed"
    /\ cli.combines = 1
    /\ ~cli.combineOk
    /\ cli.videoPath \in fs
    /\ cli.audioPath \in fs

\* C21: within one reconstruction run the labels handed to the command
\* runner are pairwise distinct, and each is the label of its position:
\* convert_ctx first, then rendergap_i_ctx or extractseg_i_ctx for segment
\* index i according to the segment's type, then concat_ctx; so the label of
\* the failing command names one stage, one index and one type.
ExpectedLabel(r, k) ==
    IF k = 1 THEN "convert_" \o Ctx(r)
    ELSE IF k <= Len(run[r].segments) + 1
        THEN (IF run[r].segments[k - 1].type = "gap" THEN "rendergap_"
                                                     ELSE "extractseg_")
                \o ToString(k - 2) \o "_" \o Ctx(r)
    ELSE "concat_" \o Ctx(r)

C21_LabelsDistinct ==
    \A r \in Runs :
        Video(r) =>
            LET c == run[r].cmds
            IN  /\ \A j, k \in 1..Len(c) :
                     LabelText(c[j].label) = LabelText(c[k].label) => j = k
                /\ \A k \in 1..Len(c) :
                     LabelText(c[k].label) = ExpectedLabel(r, k)

\* the third render of a gap, source, gap plan is the command that failed
C21_Witness ==
    \E r \in Runs :
        /\ Video(r)
        /\ run[r].pc = "failed"
        /\ Len(run[r].cmds) = 4
        /\ Len(run[r].segments) >= 3
        /\ run[r].segments[1].type = "gap"
        /\ run[r].segments[3].type = "gap"
        /\ LabelText(run[r].cmds[4].label) = "rendergap_2_" \o Ctx(r)

\* C22: the batch script splits the target rooms into consecutive batches
\* of at most batchSize rooms, every target room in exactly one batch; no
\* room of a later batch starts before every room of the batches before it
\* has settled, so at most batchSize rooms are in flight; a failed room
\* stops neither the other rooms nor the later batches, and at the end
\* successCount + failCount is the number of target rooms.
RECURSIVE Flatten(_)
Flatten(ss) == IF ss = <<>> THEN <<>> ELSE Head(ss) \o Flatten(Tail(ss))

BatchSplit == batch.pc \in {"running", "pause", "done"}

InFlight22 ==
    {room \in 1..MaxRooms : batch.rooms[room].st \notin {"idle", "settled"}}

TargetSet == {batch.targetRooms[k] : k \in 1..Len(batch.targetRooms)}

C22_BatchesBounded ==
    BatchSplit =>
        /\ Flatten(batch.batches) = batch.targetRooms
        /\ \A k \in 1..Len(batch.batches) :
              /\ Len(batch.batches[k]) >= 1
              /\ Len(batch.batches[k]) <= batch.BATCH_SIZE
        /\ \A room \in TargetSet :
              Cardinality({k \in 1..Len(batch.batches) :
                              room \in BatchOf(batch, k)}) = 1
        /\ \A room \in 1..MaxRooms :
              batch.rooms[room].st # "idle" =>
                 /\ room \in BatchOf(batch, batch.rooms[room].batch)
                 /\ \A k \in 1..(batch.rooms[room].batch - 1) :
                       \A other \in BatchOf(batch, k) :
                          batch.rooms[other].st = "settled"
        /\ Cardinality(InFlight22) <= batch.BATCH_SIZE
        /\ batch.pc = "done" =>
              /\ \A room \in TargetSet : batch.rooms[room].st = "settled"
              /\ batch.successCount + batch.failCount = Len(batch.targetRooms)
              /\ batch.successCount =
                    Cardinality({room \in TargetSet : batch.rooms[room].success})

\* a room of the first batch threw, a room of a later batch succeeded, and
\* the script reached its summary
C22_Witness ==
    /\ batch.pc = "done"
    /\ Len(batch.batches) >= 2
    /\ batch.BATCH_SIZE = 2
    /\ \E room \in BatchOf(batch, 1) : batch.rooms[room].thrown
    /\ \E room \in BatchOf(batch, 2) : batch.rooms[room].success
    /\ batch.failCount >= 1
    /\ batch.successCount >= 1

====
